---- MODULE Spec2Model ----
(***************************************************************************)
(* Verification model of the TempoRun2025 data-preparation utilities:      *)
(*   - normalize_json_keys.py          (Key Normalizer)                    *)
(*   - build_sample_and_soultion_files.py (Solution Builder)               *)
(*   - split.py                        (Dataset Splitter)                  *)
(*                                                                         *)
(* Strings are sequences of tokens.  A token is ":" (a colon), " " or "\n" *)
(* (whitespace), or a word: a non-empty run of letters such as "questions".*)
(* The string functions used by the code (str.strip, re.sub(r":+$", ""),   *)
(* str.upper) only look at colons, whitespace and letter case, so a run of *)
(* letters is kept as one token.                                           *)
(***************************************************************************)
EXTENDS Integers, Sequences, FiniteSets, TLC

VARIABLES
    \* --- key normalization, one key at a time
    key, builderKey, normalizerKey,
    \* --- Key Normalizer (process_file)
    inputDoc, srcDoc, dstDoc, inplace, outDir, outs, counts, nerror,
    \* --- Solution Builder (main)
    publicDir, privateDir, readFiles, pc, rows, df_solution, solutionFile,
    sampleFile, error,
    \* --- Dataset Splitter (module body of split.py)
    src_folder, split_counts, files, splits, copied, spc, serror

keyVars   == <<key, builderKey, normalizerKey>>
normVars  == <<inputDoc, srcDoc, dstDoc, inplace, outDir, outs, counts, nerror>>
buildVars == <<publicDir, privateDir, readFiles, pc, rows, df_solution,
               solutionFile, sampleFile, error>>
splitVars == <<src_folder, split_counts, files, splits, copied, spc, serror>>
vars      == <<keyVars, normVars, buildVars, splitVars>>

None == "None"
\* a key not computed yet (no key string holds this token)
NoKey == <<"<unset>">>
\* a file that does not exist, and files by their content
NoFile == [t |-> "nofile", v |-> 0]
Json(doc) == [t |-> "json", v |-> doc]
Csv(table) == [t |-> "csv", v |-> table]
\* a directory argument: given on the command line, existing, its *.json stems
NoDir == [given |-> FALSE, exists |-> FALSE, stems |-> {}]
\* no exception raised
NoError == [kind |-> "None", file |-> <<>>, q |-> 0]

----------------------------------------------------------------------------
(* String helpers                                                          *)

Whitespace == {" ", "\n"}

RECURSIVE LStrip(_)
LStrip(s) ==
    IF s # <<>> /\ Head(s) \in Whitespace THEN LStrip(Tail(s)) ELSE s

RECURSIVE RStrip(_)
RStrip(s) ==
    IF s # <<>> /\ s[Len(s)] \in Whitespace
    THEN RStrip(SubSeq(s, 1, Len(s) - 1)) ELSE s

\* str.strip(): drop leading and trailing whitespace
Strip(s) == RStrip(LStrip(s))

RECURSIVE DropTrailingColons(_)
DropTrailingColons(s) ==
    IF s # <<>> /\ s[Len(s)] = ":"
    THEN DropTrailingColons(SubSeq(s, 1, Len(s) - 1)) ELSE s

\* re.sub(r":+$", "", s): "$" matches at the end of the string and also just
\* before a newline that is the last character of the string.
SubTrailingColons(s) ==
    IF s # <<>> /\ s[Len(s)] = "\n"
    THEN DropTrailingColons(SubSeq(s, 1, Len(s) - 1)) \o <<"\n">>
    ELSE DropTrailingColons(s)

\* build_sample_and_soultion_files.py line 21: re.sub(r":+$", "", k.strip())
BuilderTopKey(k) == SubTrailingColons(Strip(k))

\* normalize_json_keys.py line 14: re.sub(r":+$", "", str(k)).strip()
NormKey(k) == Strip(SubTrailingColons(k))

\* build_sample_and_soultion_files.py line 36 (nested keys of a question)
BuilderNestedKey(k) == Strip(SubTrailingColons(k))

----------------------------------------------------------------------------
(* JSON values.  Every value carries its type tag t, so that values of     *)
(* different JSON types can be compared:                                   *)
(*   "str"  : v is the string (tokens, or an opaque tag)                   *)
(*   "null" : JSON null / Python None                                      *)
(*   "list" : v is the sequence of elements                                *)
(*   "dict" : v is the mapping, kept as Python keeps it: the sequence of   *)
(*            <<key, value>> pairs in insertion order, keys distinct       *)

Str(x)   == [t |-> "str",  v |-> x]
Null     == [t |-> "null", v |-> 0]
List(xs) == [t |-> "list", v |-> xs]
Dict(ps) == [t |-> "dict", v |-> ps]

IsList(x) == x.t = "list"
IsDict(x) == x.t = "dict"

\* Python dict operations on the sequence of pairs
DictKeys(d)   == [i \in DOMAIN d |-> d[i][1]]
DictHas(d, k) == \E i \in DOMAIN d : d[i][1] = k
DictGet(d, k, default) ==
    IF DictHas(d, k) THEN d[CHOOSE i \in DOMAIN d : d[i][1] = k][2] ELSE default
\* d[k] = v : an existing key keeps its position, a new key goes last
DictSet(d, k, v) ==
    IF DictHas(d, k)
    THEN [i \in DOMAIN d |-> IF d[i][1] = k THEN <<k, v>> ELSE d[i]]
    ELSE Append(d, <<k, v>>)
\* d.pop(k, None)
DictPop(d, k) == SelectSeq(d, LAMBDA p : p[1] # k)

----------------------------------------------------------------------------
(* Key Normalizer: normalize_json_keys.py                                  *)

QUESTIONS      == <<"questions">>
CORRECT_ANSWER == <<"correct_answer">>
EXPLANATION    == <<"explanation">>

\* fix_top_level_keys: fixed = {}; for k, v in d.items(): fixed[k2] = v
RECURSIVE FixFrom(_, _, _)
FixFrom(d, i, fixed) ==
    IF i > Len(d) THEN fixed
    ELSE FixFrom(d, i + 1, DictSet(fixed, NormKey(d[i][1]), d[i][2]))

fix_top_level_keys(d) == FixFrom(d, 1, <<>>)

\* strip_from_questions, lines 33-38: keys_map is built from list(q.keys())
\* before the loop; the loop then mutates q in place:
\*     if new_k != old_k: q[new_k] = q.pop(old_k)
RenameStep(q, old_k) ==
    LET new_k == NormKey(old_k)
    IN  IF new_k # old_k
        THEN DictSet(DictPop(q, old_k), new_k, DictGet(q, old_k, Null))
        ELSE q

RECURSIVE RenameFrom(_, _, _)
RenameFrom(q, keys, i) ==
    IF i > Len(keys) THEN q
    ELSE RenameFrom(RenameStep(q, keys[i]), keys, i + 1)

RenameKeys(q) == RenameFrom(q, DictKeys(q), 1)

\* faulty variant: the removal is counted but the field is left in place
PopField_CountOnly(r, k, counter) ==
    IF DictHas(r.q, k) THEN [r EXCEPT ![counter] = r[counter] + 1] ELSE r

\* lines 40-45: pop the two ground-truth fields, counting the removals
PopField(r, k, counter) ==
    IF DictHas(r.q, k)
    THEN [r EXCEPT !.q = DictPop(r.q, k), ![counter] = r[counter] + 1]
    ELSE r

\* faulty variant: the two fields are popped before the keys are normalized
StripQuestion_PopBeforeRename(e) ==
    IF ~IsDict(e) THEN [q |-> e, rc |-> 0, rexp |-> 0]
    ELSE LET r == PopField(PopField([q |-> e.v, rc |-> 0, rexp |-> 0],
                                    CORRECT_ANSWER, "rc"), EXPLANATION, "rexp")
         IN  [r EXCEPT !.q = Dict(RenameKeys(r.q))]

\* the loop body for one element of `questions` (lines 30-45)
StripQuestion(e) ==
    IF ~IsDict(e) THEN [q |-> e, rc |-> 0, rexp |-> 0]
    ELSE LET renamed == [q |-> RenameKeys(e.v), rc |-> 0, rexp |-> 0]
             r       == PopField(PopField(renamed, CORRECT_ANSWER, "rc"),
                                 EXPLANATION, "rexp")
         IN  [r EXCEPT !.q = Dict(r.q)]

RECURSIVE SumField(_, _, _)
SumField(rs, f, i) ==
    IF i > Len(rs) THEN 0 ELSE rs[i][f] + SumField(rs, f, i + 1)

\* strip_from_questions(obj): returns the mutated obj and the two counts
strip_from_questions(obj) ==
    LET questions == DictGet(obj, QUESTIONS, List(<<>>))
    IN  IF ~IsList(questions) THEN [obj |-> obj, rc |-> 0, rexp |-> 0]
        ELSE LET rs == [i \in DOMAIN questions.v |-> StripQuestion(questions.v[i])]
                 qs == [i \in DOMAIN rs |-> rs[i].q]
             IN  [obj  |-> IF DictHas(obj, QUESTIONS)
                           THEN DictSet(obj, QUESTIONS, List(qs)) ELSE obj,
                  rc   |-> SumField(rs, "rc", 1),
                  rexp |-> SumField(rs, "rexp", 1)]

\* process_file: what is written to dst_path, and the returned counts
process_file(data) == strip_from_questions(fix_top_level_keys(data))

----------------------------------------------------------------------------
(* Solution Builder: build_sample_and_soultion_files.py                    *)
(* File stems, answers and row ids are strings of single characters.       *)

VALID_CHOICES == {<<"A">>, <<"B">>, <<"C">>, <<"D">>}

\* str.upper() on the characters answers are written with
UpperChar(c) ==
    CASE c = "a" -> "A" [] c = "b" -> "B" [] c = "c" -> "C"
      [] c = "d" -> "D" [] c = "e" -> "E" [] OTHER -> c
Upper(s) == [i \in DOMAIN s |-> UpperChar(s[i])]

DigitChars == <<"0", "1", "2", "3", "4", "5", "6", "7", "8", "9">>
\* str(q_index) in decimal
RECURSIVE Digits(_)
Digits(n) ==
    IF n < 10 THEN <<DigitChars[n + 1]>>
    ELSE Digits(n \div 10) \o <<DigitChars[(n % 10) + 1]>>

\* faulty variant: the question index counted from 0
make_row_id_ZeroBased(stem, q_index) ==
    stem \o <<"_", "_", "q">> \o Digits(q_index - 1)

\* make_row_id: f"{stem}__q{q_index}"
make_row_id(stem, q_index) == stem \o <<"_", "_", "q">> \o Digits(q_index)

\* load_json_fix_keys: fixed = {}; for k, v in data.items(): fixed[k2] = v
RECURSIVE LoadFrom(_, _, _)
LoadFrom(d, i, fixed) ==
    IF i > Len(d) THEN fixed
    ELSE LoadFrom(d, i + 1, DictSet(fixed, BuilderTopKey(d[i][1]), d[i][2]))

load_json_fix_keys(data) == LoadFrom(data, 1, <<>>)

\* iter_qas_from_json, line 36: the dict comprehension over qa.items()
RECURSIVE QaFixedFrom(_, _, _)
QaFixedFrom(qa, i, fixed) ==
    IF i > Len(qa) THEN fixed
    ELSE QaFixedFrom(qa, i + 1, DictSet(fixed, BuilderNestedKey(qa[i][1]), qa[i][2]))

\* iter_qas_from_json: questions = j.get("questions", []) or []
iter_qas_from_json(j) ==
    LET questions == DictGet(j, QUESTIONS, List(<<>>))
        qs == IF IsList(questions) THEN questions.v ELSE <<>>
    IN  [i \in DOMAIN qs |-> QaFixedFrom(qs[i].v, 1, <<>>)]

\* line 65: label = str(correct).strip().upper()
Label(correct) == Upper(Strip(correct.v))

\* the loop over the questions of one file (lines 57-76): the rows of the
\* file, or the first error raised
RECURSIVE ExtractFrom(_, _, _, _, _)
ExtractFrom(stem, usage_value, qas, i, acc) ==
    IF i > Len(qas) THEN [error |-> NoError, rows |-> acc]
    ELSE LET correct == DictGet(qas[i], CORRECT_ANSWER, Null)
         IN  IF correct.t = "null"
             THEN [error |-> [kind |-> "MissingGroundTruth", file |-> stem, q |-> i],
                   rows  |-> <<>>]
             ELSE IF Label(correct) \notin VALID_CHOICES
             THEN [error |-> [kind |-> "InvalidChoiceLabel", file |-> stem, q |-> i],
                   rows  |-> <<>>]
             ELSE ExtractFrom(stem, usage_value, qas, i + 1,
                      Append(acc, [row_id |-> make_row_id(stem, i),
                                   answer |-> Label(correct),
                                   Usage  |-> usage_value]))

\* the body of the loop of extract_rows_from_dir for one file (lines 55-76)
ExtractFile(stem, data, usage_value) ==
    ExtractFrom(stem, usage_value, iter_qas_from_json(load_json_fix_keys(data)),
                1, <<>>)

\* code points of the characters of file names and row ids
Ord(c) ==
    CASE c = "0" -> 48 [] c = "1" -> 49 [] c = "2" -> 50 [] c = "3" -> 51
      [] c = "4" -> 52 [] c = "5" -> 53 [] c = "6" -> 54 [] c = "7" -> 55
      [] c = "8" -> 56 [] c = "9" -> 57 [] c = "_" -> 95 [] c = "a" -> 97
      [] c = "b" -> 98 [] c = "q" -> 113

\* s < t for Python strings
RECURSIVE StrLess(_, _)
StrLess(s, t) ==
    IF t = <<>> THEN FALSE
    ELSE IF s = <<>> THEN TRUE
    ELSE IF Head(s) = Head(t) THEN StrLess(Tail(s), Tail(t))
    ELSE Ord(Head(s)) < Ord(Head(t))

\* sorted(data_dir.glob("*.json")) for the files of the given stems
RECURSIVE SortedStems(_)
SortedStems(S) ==
    IF S = {} THEN <<>>
    ELSE LET m == CHOOSE x \in S : \A y \in S \ {x} : StrLess(x, y)
         IN  <<m>> \o SortedStems(S \ {m})

\* faulty variant: only neighbouring rows are compared
HasDuplicateRowId_Adjacent(rs) ==
    \E i \in DOMAIN rs : i + 1 \in DOMAIN rs /\ rs[i].row_id = rs[i + 1].row_id

\* df["row_id"].duplicated(keep=False).any()
HasDuplicateRowId(rs) ==
    \E i, j \in DOMAIN rs : i # j /\ rs[i].row_id = rs[j].row_id

\* the order of sort_values(["Usage", "row_id"]): "Private" < "Public"
RowLess(a, b) ==
    \/ a.Usage = "Private" /\ b.Usage = "Public"
    \/ a.Usage = b.Usage /\ StrLess(a.row_id, b.row_id)

SortRows(rs) == SortSeq(rs, RowLess)

\* faulty variant: the placeholder is the ground-truth answer
SampleOf_Truth(df) == [i \in DOMAIN df |-> [row_id |-> df[i].row_id, answer |-> df[i].answer]]

\* lines 123-124: df_sample = df_solution[["row_id"]].copy(); answer = "A"
SampleOf(df) == [i \in DOMAIN df |-> [row_id |-> df[i].row_id, answer |-> <<"A">>]]

----------------------------------------------------------------------------
(* Bounds and input sets                                                   *)

\* most questions in one file given to the Solution Builder
MaxQuestions == 3
\* most files in the public and the private directory together
MaxFiles == 2
\* most files in the Splitter's source folder
MaxSrcFiles == 4
\* largest requested size of one split
MaxCount == 2
\* longest key string (in tokens) of the key-normalization specification
MaxKeyLen == 4
\* most keys in one question mapping
MaxKeys == 2
\* most runs of the Normalizer over the same directory
MaxRuns == 2

SeqsUpTo(S, n) == UNION {[1..m -> S] : m \in 0..n}
InjSeqs(S, n)  ==
    {s \in SeqsUpTo(S, n) : \A i, j \in DOMAIN s : i # j => s[i] # s[j]}

\* key strings over a letter word, the colon and whitespace
KeyAlphabet == {"questions", ":", " ", "\n"}
KeyStrings  == SeqsUpTo(KeyAlphabet, MaxKeyLen)

\* what follows the word of a key in the documents: nothing, a colon, a
\* colon and a space
Noise == {<<>>, <<":">>, <<":", " ">>}
NoisyKeys(words) == {<<w>> \o n : w \in words, n \in Noise}

\* Solution Builder inputs.  Question mappings: a lower-case answer, an
\* answer with whitespace under a key with a trailing colon, an answer that is
\* no choice, and no answer at all
Stems == {<<"a">>, <<"b">>}
BQuestions ==
    { Dict(<<<<CORRECT_ANSWER, Str(<<"b">>)>>>>),
      Dict(<<<<<<"correct_answer", ":">>, Str(<<" ", "C">>)>>>>),
      Dict(<<<<CORRECT_ANSWER, Str(<<"E">>)>>>>),
      Dict(<<<<<<"question">>, Str(<<"x">>)>>>>) }
\* question files: `questions` with up to MaxQuestions entries; one question
\* under `questions:` and under `questions :`; `questions` null; no key at all
BDocs ==
    {<<<<QUESTIONS, List(ql)>>>> : ql \in SeqsUpTo(BQuestions, MaxQuestions)}
    \cup {<<<<k, List(<<Dict(<<<<CORRECT_ANSWER, Str(<<"b">>)>>>>)>>)>>>> :
              k \in {<<"questions", ":">>, <<"questions", " ", ":">>}}
    \cup {<<<<QUESTIONS, Null>>>>, <<>>}
ExistingDirs == {[given |-> TRUE, exists |-> TRUE, stems |-> S] : S \in SUBSET Stems}
MissingDir   == [given |-> TRUE, exists |-> FALSE, stems |-> {}]

QKeys   == NoisyKeys({"question", "correct_answer", "explanation"})
TopKeys == NoisyKeys({"questions"}) \cup {<<"content">>, <<"content", ":">>}

\* question mappings: up to MaxKeys distinct keys; the value of the i-th key
\* is the tag i, so that the origin of every output value is known
QDicts == {Dict([i \in DOMAIN ks |-> <<ks[i], Str(i)>>]) : ks \in InjSeqs(QKeys, MaxKeys)}
NonMapping == Str(0)

\* `questions` lists: empty, one element, or a mapping beside a non-mapping
QLists ==
    {<<>>, <<NonMapping, NonMapping>>}
    \cup {<<e>> : e \in QDicts \cup {NonMapping}}
    \cup {<<NonMapping, q>> : q \in QDicts} \cup {<<q, NonMapping>> : q \in QDicts}

\* documents: one list-valued entry under a `questions`-like key, alone or
\* with one more entry (a string) before or after it
DistinctKeys(d) == \A i, j \in DOMAIN d : i # j => d[i][1] # d[j][1]

NormDocs ==
    LET lone == {<<<<k, List(ql)>>>> : k \in NoisyKeys({"questions"}), ql \in QLists}
        both == lone
        \cup {<<<<k, Str(10)>>>> \o d : k \in TopKeys, d \in lone}
        \cup {d \o <<<<k, Str(10)>>>> : k \in TopKeys, d \in lone}
    IN  {d \in both : DistinctKeys(d)}


----------------------------------------------------------------------------
(* Specification of key normalization alone: both utilities on one key     *)

NormIdle  == /\ inputDoc = <<>> /\ srcDoc = <<>> /\ dstDoc = NoFile
             /\ inplace = FALSE /\ outDir = FALSE
             /\ outs = <<>> /\ counts = <<>> /\ nerror = None
KeysIdle  == key = <<>> /\ builderKey = NoKey /\ normalizerKey = NoKey
BuildIdle == /\ publicDir = NoDir /\ privateDir = NoDir /\ readFiles = <<>>
             /\ pc = "idle" /\ rows = <<>> /\ df_solution = <<>>
             /\ solutionFile = NoFile /\ sampleFile = NoFile /\ error = NoError
SplitIdle == /\ src_folder = {} /\ split_counts = <<>> /\ files = <<>>
             /\ splits = <<>> /\ copied = <<>> /\ spc = "idle" /\ serror = None

KeysInit == /\ key \in KeyStrings
            /\ builderKey = NoKey /\ normalizerKey = NoKey
            /\ NormIdle /\ BuildIdle /\ SplitIdle

\* load_json_fix_keys on a document whose one key is `key`
LoadJsonFixKeys ==
    /\ builderKey = NoKey
    /\ builderKey' = BuilderTopKey(key)
    /\ UNCHANGED <<key, normalizerKey, normVars, buildVars, splitVars>>

\* fix_top_level_keys on the same document
FixTopLevelKeys ==
    /\ normalizerKey = NoKey
    /\ normalizerKey' = DictKeys(fix_top_level_keys(<<<<key, Null>>>>))[1]
    /\ UNCHANGED <<key, builderKey, normVars, buildVars, splitVars>>

KeysNext == LoadJsonFixKeys \/ FixTopLevelKeys
SpecKeys == KeysInit /\ [][KeysNext]_vars

----------------------------------------------------------------------------
(* Specification of the Key Normalizer: main() over a directory holding    *)
(* one question file                                                       *)

NormInit == /\ inputDoc \in NormDocs /\ srcDoc = inputDoc /\ dstDoc = NoFile
            /\ inplace \in BOOLEAN /\ outDir \in BOOLEAN
            /\ outs = <<>> /\ counts = <<>> /\ nerror = None
            /\ KeysIdle /\ BuildIdle /\ SplitIdle

\* main, lines 75-76: --inplace together with --out_dir is refused
ConflictingFlags ==
    /\ inplace /\ outDir /\ nerror = None
    /\ nerror' = "ConflictingOutputMode"
    /\ UNCHANGED <<inputDoc, srcDoc, dstDoc, inplace, outDir, outs, counts>>
    /\ UNCHANGED <<keyVars, buildVars, splitVars>>

\* one run of main, lines 84-98: process_file(src_path, dst_path); dst_path
\* is src_path with --inplace, else a file of out_dir or of public_clean/
ProcessFile ==
    /\ ~(inplace /\ outDir) /\ Len(outs) < MaxRuns
    /\ LET r == process_file(srcDoc)
       IN  /\ IF inplace THEN srcDoc' = r.obj /\ dstDoc' = dstDoc
                         ELSE dstDoc' = Json(r.obj) /\ srcDoc' = srcDoc
           /\ outs' = Append(outs, r.obj)
           /\ counts' = Append(counts, <<r.rc, r.rexp>>)
    /\ UNCHANGED <<inputDoc, inplace, outDir, nerror>>
    /\ UNCHANGED <<keyVars, buildVars, splitVars>>

NormNext == ConflictingFlags \/ ProcessFile
SpecNorm == NormInit /\ [][NormNext]_vars

----------------------------------------------------------------------------
(* Properties of the Key Normalizer                                        *)

\* equality of documents as JSON values: mappings without regard to key order
ScalarEq(x, y) == x.t = y.t /\ x.v = y.v
SameKeys(a, b) ==
    /\ \A i \in DOMAIN a : DictHas(b, a[i][1])
    /\ \A i \in DOMAIN b : DictHas(a, b[i][1])
EntryEq(a, b) ==
    /\ SameKeys(a, b)
    /\ \A i \in DOMAIN a : ScalarEq(a[i][2], DictGet(b, a[i][1], Null))
ElemEq(x, y) ==
    /\ x.t = y.t
    /\ IF IsDict(x) THEN EntryEq(x.v, y.v) ELSE x.v = y.v
TopValEq(x, y) ==
    /\ x.t = y.t
    /\ IF IsList(x)
       THEN Len(x.v) = Len(y.v) /\ \A j \in DOMAIN x.v : ElemEq(x.v[j], y.v[j])
       ELSE x.v = y.v
DocEq(a, b) ==
    /\ SameKeys(a, b)
    /\ \A i \in DOMAIN a : TopValEq(a[i][2], DictGet(b, a[i][1], Null))

\* the mapping elements of the `questions` sequence of a document
QuestionEntries(doc) ==
    LET qs == DictGet(doc, QUESTIONS, List(<<>>))
    IN  IF IsList(qs) THEN {qs.v[j].v : j \in {n \in DOMAIN qs.v : IsDict(qs.v[n])}}
        ELSE {}

\* C5: after the Normalizer has processed a question file, no mapping element
\* of the output `questions` sequence has a key correct_answer or explanation.
C5_NoGroundTruthInOutput ==
    \A r \in DOMAIN outs : \A q \in QuestionEntries(outs[r]) :
        ~DictHas(q, CORRECT_ANSWER) /\ ~DictHas(q, EXPLANATION)

\* a processed file one of whose question entries had `correct_answer:` (with a
\* trailing colon) colliding with a clean `correct_answer`, both removed
C5_Witness ==
    /\ Len(outs) >= 1
    /\ \E i \in DOMAIN inputDoc :
          /\ NormKey(inputDoc[i][1]) = QUESTIONS /\ IsList(inputDoc[i][2])
          /\ \E j \in DOMAIN inputDoc[i][2].v :
                /\ IsDict(inputDoc[i][2].v[j])
                /\ DictHas(inputDoc[i][2].v[j].v, <<"correct_answer", ":">>)
                /\ DictHas(inputDoc[i][2].v[j].v, CORRECT_ANSWER)
    /\ counts[1][1] = 1
    /\ QuestionEntries(outs[1]) = {<<>>}

\* the input with correct_answer and explanation removed from each question
\* entry and nothing else touched
WithoutGroundTruth(doc) ==
    [i \in DOMAIN doc |->
        IF doc[i][1] = QUESTIONS /\ IsList(doc[i][2])
        THEN <<doc[i][1],
               List([j \in DOMAIN doc[i][2].v |->
                      IF IsDict(doc[i][2].v[j])
                      THEN Dict(DictPop(DictPop(doc[i][2].v[j].v, CORRECT_ANSWER),
                                        EXPLANATION))
                      ELSE doc[i][2].v[j]])>>
        ELSE doc[i]]

\* every key of the document, top-level and in question entries, is already in
\* normalized form
KeysClean(doc) ==
    \A i \in DOMAIN doc :
        /\ NormKey(doc[i][1]) = doc[i][1]
        /\ IsList(doc[i][2]) =>
              \A j \in DOMAIN doc[i][2].v :
                  IsDict(doc[i][2].v[j]) =>
                      \A n \in DOMAIN doc[i][2].v[j].v :
                          NormKey(doc[i][2].v[j].v[n][1]) = doc[i][2].v[j].v[n][1]

\* C6 (as claimed): the output document equals the input document with
\* correct_answer and explanation removed from each question entry, mappings
\* compared without regard to key order.
C6_OutputIsInputMinusFields ==
    Len(outs) >= 1 => DocEq(outs[1], WithoutGroundTruth(inputDoc))

\* C6 (amended): the same, for a question file whose keys are all already in
\* normalized form (no trailing colons, no surrounding whitespace).
C6_CleanKeysOutputIsInputMinusFields ==
    (Len(outs) >= 1 /\ KeysClean(inputDoc)) =>
        DocEq(outs[1], WithoutGroundTruth(inputDoc))

\* a processed clean-key file with a second top-level entry and a question
\* entry holding `question` and `correct_answer`
C6_Witness ==
    /\ Len(outs) >= 1 /\ KeysClean(inputDoc)
    /\ DictHas(inputDoc, <<"content">>)
    /\ \E q \in QuestionEntries(inputDoc) :
          DictHas(q, <<"question">>) /\ DictHas(q, CORRECT_ANSWER)
    /\ \E q \in QuestionEntries(outs[1]) : DictKeys(q) = <<<<"question">>>>

\* C8: with --inplace, a second run of the Normalizer over its own output
\* yields a document identical to the output of the first run.
C8_SecondRunChangesNothing ==
    (inplace /\ Len(outs) >= 2) => DocEq(outs[2], outs[1])

\* the positions of the keys of mapping d that normalize to name n
Normalizing(d, n) == {i \in DOMAIN d : NormKey(d[i][1]) = n}
Last(S) == CHOOSE i \in S : \A j \in S : j <= i

\* the names that two or more keys of mapping d normalize to
Colliding(d) ==
    {NormKey(d[i][1]) : i \in {m \in DOMAIN d :
        \E j \in DOMAIN d : j # m /\ NormKey(d[j][1]) = NormKey(d[m][1])}}

\* mapping `out` holds name n once
HoldsOnce(out, n) == Cardinality({m \in DOMAIN out : out[m][1] = n}) = 1

\* an output value is the input value, its question entries processed
SameTopValue(x, y) == x.t = y.t /\ (~IsList(x) => x.v = y.v)

\* last write wins in the top-level mapping `out` for the colliding keys of `d`
TopLastWriteWins(d, out) ==
    \A n \in Colliding(d) :
        /\ HoldsOnce(out, n)
        /\ SameTopValue(d[Last(Normalizing(d, n))][2], DictGet(out, n, Null))

\* last write wins in the question entry `out` for the colliding keys of `d`
\* (the two removed fields aside)
EntryLastWriteWins(d, out) ==
    \A n \in Colliding(d) \ {CORRECT_ANSWER, EXPLANATION} :
        /\ HoldsOnce(out, n)
        /\ ScalarEq(d[Last(Normalizing(d, n))][2], DictGet(out, n, Null))

\* C9: when two keys of one mapping normalize to the same name, the output
\* holds that name once, with the value of the later-encountered key: in the
\* top-level mapping and in every question entry.
C9_LastWriteWins ==
    Len(outs) >= 1 =>
        /\ TopLastWriteWins(inputDoc, outs[1])
        /\ \A i \in DOMAIN inputDoc :
              (IsList(inputDoc[i][2]) /\ i = Last(Normalizing(inputDoc, QUESTIONS))) =>
                  \A j \in DOMAIN inputDoc[i][2].v :
                      IsDict(inputDoc[i][2].v[j]) =>
                          EntryLastWriteWins(inputDoc[i][2].v[j].v,
                              DictGet(outs[1], QUESTIONS, Null).v[j].v)

\* the top-level half of C9 alone
TopLevelLastWriteWins ==
    Len(outs) >= 1 => TopLastWriteWins(inputDoc, outs[1])

\* C10: load_json_fix_keys and fix_top_level_keys give every key string over
\* letters, colons and spaces the same normalized key.
C10_SameNormalizedKey ==
    (builderKey # NoKey /\ normalizerKey # NoKey
        /\ \A i \in DOMAIN key : key[i] # "\n") =>
        builderKey = normalizerKey

----------------------------------------------------------------------------
(* Specification of the Solution Builder: main(public_dir, out_solution,   *)
(* out_sample_sub, private_dir).  The content of a file is chosen when the *)
(* file is read; readFiles keeps what was read.                            *)

BuildInit ==
    /\ publicDir \in ExistingDirs \cup {MissingDir}
    /\ privateDir \in ExistingDirs \cup {MissingDir, NoDir}
    /\ Cardinality(publicDir.stems) + Cardinality(privateDir.stems) <= MaxFiles
    /\ readFiles = <<>> /\ pc = "start" /\ rows = <<>> /\ df_solution = <<>>
    /\ solutionFile = NoFile /\ sampleFile = NoFile /\ error = NoError
    /\ KeysIdle /\ NormIdle /\ SplitIdle

Raise(e) == pc' = "failed" /\ error' = e

\* lines 85-86
CheckPublicDir ==
    /\ pc = "start"
    /\ IF ~publicDir.exists
       THEN Raise([kind |-> "MissingDirectory", file |-> <<>>, q |-> 0])
       ELSE /\ pc' = IF publicDir.stems = {} THEN "check_private" ELSE "extract_public"
            /\ error' = error
    /\ UNCHANGED <<publicDir, privateDir, readFiles, rows, df_solution,
                   solutionFile, sampleFile>>
    /\ UNCHANGED <<keyVars, normVars, splitVars>>

ReadCount(usage) == Cardinality({i \in DOMAIN readFiles : readFiles[i].usage = usage})

\* one iteration of the loop of extract_rows_from_dir (lines 54-76) over the
\* sorted files of `dir`; doneAt is where main goes on after the last file
ExtractNext(dir, usage, doneAt) ==
    LET stems == SortedStems(dir.stems)
        n     == ReadCount(usage) + 1
    IN  \E data \in BDocs :
           LET r == ExtractFile(stems[n], data, usage)
           IN  /\ readFiles' = Append(readFiles,
                                 [usage |-> usage, stem |-> stems[n], data |-> data])
               /\ IF r.error # NoError
                  THEN Raise(r.error) /\ rows' = rows
                  ELSE /\ rows' = rows \o r.rows
                       /\ pc' = IF n = Len(stems) THEN doneAt ELSE pc
                       /\ error' = error

\* line 89: public_rows = extract_rows_from_dir(public_dir, "Public")
ExtractPublicFile ==
    /\ pc = "extract_public"
    /\ ExtractNext(publicDir, "Public", "check_private")
    /\ UNCHANGED <<publicDir, privateDir, df_solution, solutionFile, sampleFile>>
    /\ UNCHANGED <<keyVars, normVars, splitVars>>

\* lines 93-95
CheckPrivateDir ==
    /\ pc = "check_private"
    /\ IF ~privateDir.given THEN pc' = "validate" /\ error' = error
       ELSE IF ~privateDir.exists
       THEN Raise([kind |-> "MissingDirectory", file |-> <<>>, q |-> 0])
       ELSE /\ pc' = IF privateDir.stems = {} THEN "validate" ELSE "extract_private"
            /\ error' = error
    /\ UNCHANGED <<publicDir, privateDir, readFiles, rows, df_solution,
                   solutionFile, sampleFile>>
    /\ UNCHANGED <<keyVars, normVars, splitVars>>

\* line 96: private_rows = extract_rows_from_dir(private_dir, "Private")
ExtractPrivateFile ==
    /\ pc = "extract_private"
    /\ ExtractNext(privateDir, "Private", "validate")
    /\ UNCHANGED <<publicDir, privateDir, df_solution, solutionFile, sampleFile>>
    /\ UNCHANGED <<keyVars, normVars, splitVars>>

\* faulty variant: the solution file is written before the row ids are validated
ValidateRows_AfterWrite ==
    /\ pc = "validate"
    /\ IF rows = <<>>
       THEN /\ Raise([kind |-> "EmptyResultSet", file |-> <<>>, q |-> 0])
            /\ UNCHANGED <<df_solution, solutionFile>>
       ELSE /\ df_solution' = SortRows(rows)
            /\ solutionFile' = Csv(SortRows(rows))
            /\ IF HasDuplicateRowId(rows)
               THEN Raise([kind |-> "DuplicateRowId", file |-> <<>>, q |-> 0])
               ELSE pc' = "write_sample" /\ error' = error
    /\ UNCHANGED <<publicDir, privateDir, readFiles, rows, sampleFile>>
    /\ UNCHANGED <<keyVars, normVars, splitVars>>

\* lines 98-114: rows = public_rows + private_rows, the two validations, the sort
ValidateRows ==
    /\ pc = "validate"
    /\ IF rows = <<>>
       THEN /\ Raise([kind |-> "EmptyResultSet", file |-> <<>>, q |-> 0])
            /\ df_solution' = df_solution
       ELSE IF HasDuplicateRowId(rows)
       THEN /\ Raise([kind |-> "DuplicateRowId", file |-> <<>>, q |-> 0])
            /\ df_solution' = df_solution
       ELSE /\ df_solution' = SortRows(rows)
            /\ pc' = "write_solution" /\ error' = error
    /\ UNCHANGED <<publicDir, privateDir, readFiles, rows, solutionFile, sampleFile>>
    /\ UNCHANGED <<keyVars, normVars, splitVars>>

\* lines 117-118: mkdir of the parent, df_solution.to_csv(out_solution)
WriteSolution ==
    /\ pc = "write_solution"
    /\ solutionFile' = Csv(df_solution)
    /\ pc' = "write_sample"
    /\ UNCHANGED <<publicDir, privateDir, readFiles, rows, df_solution,
                   sampleFile, error>>
    /\ UNCHANGED <<keyVars, normVars, splitVars>>

\* lines 123-125: df_sample.to_csv(out_sample_sub)
WriteSample ==
    /\ pc = "write_sample"
    /\ sampleFile' = Csv(SampleOf(df_solution))
    /\ pc' = "done"
    /\ UNCHANGED <<publicDir, privateDir, readFiles, rows, df_solution,
                   solutionFile, error>>
    /\ UNCHANGED <<keyVars, normVars, splitVars>>

BuildNext ==
    \/ CheckPublicDir \/ ExtractPublicFile \/ CheckPrivateDir
    \/ ExtractPrivateFile \/ ValidateRows \/ WriteSolution \/ WriteSample
SpecBuild == BuildInit /\ [][BuildNext]_vars

----------------------------------------------------------------------------
(* Properties of the Solution Builder                                      *)

Written(f) == f.t = "csv"

\* C1: a run that ends in a validation error (missing directory, missing or
\* invalid correct_answer, duplicate row_id, no rows) has written neither the
\* solution file nor the sample-submission file.
C1_NoOutputOnFailure ==
    error.kind \in {"MissingDirectory", "MissingGroundTruth", "InvalidChoiceLabel",
                    "DuplicateRowId", "EmptyResultSet"} =>
        ~Written(solutionFile) /\ ~Written(sampleFile)

\* the run failed on the second question of a private file, after the rows of
\* an earlier file had been extracted
C1_Witness ==
    /\ pc = "failed" /\ error.kind = "InvalidChoiceLabel" /\ error.q = 2
    /\ readFiles[Len(readFiles)].usage = "Private"
    /\ rows # <<>>
    /\ ~Written(solutionFile) /\ ~Written(sampleFile)

\* the `questions` sequence of a question file: the value under the key
\* `questions`, trailing colons allowed (the last such key, if several)
QuestionsOf(data) ==
    LET at == {i \in DOMAIN data : DropTrailingColons(data[i][1]) = QUESTIONS}
    IN  IF at # {} /\ IsList(data[Last(at)][2]) THEN data[Last(at)][2].v ELSE <<>>

\* the files read from both directories hold the same stem with a question each
SameStemInBoth ==
    \E f, g \in DOMAIN readFiles :
        /\ readFiles[f].usage = "Public" /\ readFiles[g].usage = "Private"
        /\ readFiles[f].stem = readFiles[g].stem
        /\ QuestionsOf(readFiles[f].data) # <<>>
        /\ QuestionsOf(readFiles[g].data) # <<>>

\* the run got past the extraction of both directories
Extracted ==
    \/ pc \in {"write_solution", "write_sample", "done"}
    \/ pc = "failed" /\ error.kind \in {"EmptyResultSet", "DuplicateRowId"}

\* C2: the row_id values of a written solution table are pairwise distinct,
\* and an input where a stem with a question is in both the public and the
\* private directory aborts with the duplicate-row-id error, nothing written.
C2_UniqueRowIds ==
    /\ Written(solutionFile) =>
          \A i, j \in DOMAIN solutionFile.v :
              i # j => solutionFile.v[i].row_id # solutionFile.v[j].row_id
    /\ (Extracted /\ SameStemInBoth) =>
          /\ error.kind = "DuplicateRowId"
          /\ ~Written(solutionFile) /\ ~Written(sampleFile)

\* an aborted run over a stem that is in both directories, two questions in
\* the public file and one in the private file
C2_Witness ==
    /\ pc = "failed" /\ error.kind = "DuplicateRowId" /\ SameStemInBoth
    /\ Len(rows) = 3

\* the answer a question entry states: the letter of A-D that its
\* correct_answer value is, in either case, whitespace aside
LowerOf(L) == CASE L = "A" -> "a" [] L = "B" -> "b" [] L = "C" -> "c" [] L = "D" -> "d"
StatedAnswer(q, L) ==
    \E n \in DOMAIN q :
        /\ DropTrailingColons(q[n][1]) = CORRECT_ANSWER
        /\ SelectSeq(q[n][2].v, LAMBDA c : c \notin Whitespace) \in {<<L>>, <<LowerOf(L)>>}

RECURSIVE TotalQuestions(_)
TotalQuestions(fs) ==
    IF fs = <<>> THEN 0
    ELSE Len(QuestionsOf(Head(fs).data)) + TotalQuestions(Tail(fs))

StemsRead(usage) ==
    {readFiles[f].stem : f \in {n \in DOMAIN readFiles : readFiles[n].usage = usage}}

\* C3: a written solution table holds, for every file of the public and of the
\* private directory and every question at position i of it, exactly one row
\* <stem>__q<i> with the stated answer in upper case and the directory's
\* Usage, and no other row.
C3_OneRowPerQuestion ==
    Written(solutionFile) =>
        /\ StemsRead("Public") = publicDir.stems
        /\ StemsRead("Private") = privateDir.stems
        /\ \A f \in DOMAIN readFiles :
              \A i \in DOMAIN QuestionsOf(readFiles[f].data) :
                  Cardinality({r \in DOMAIN solutionFile.v :
                      /\ solutionFile.v[r].row_id =
                            readFiles[f].stem \o <<"_", "_", "q", DigitChars[i + 1]>>
                      /\ solutionFile.v[r].Usage = readFiles[f].usage
                      /\ \E L \in {"A", "B", "C", "D"} :
                            /\ solutionFile.v[r].answer = <<L>>
                            /\ StatedAnswer(QuestionsOf(readFiles[f].data)[i].v, L)}) = 1
        /\ Len(solutionFile.v) = TotalQuestions(readFiles)

\* a written table for a public file with the answers b, " C" (under
\* `correct_answer:`), b and a private file with one question
C3_Witness ==
    /\ Written(solutionFile)
    /\ Len(readFiles) = 2 /\ readFiles[1].usage = "Public"
    /\ readFiles[2].usage = "Private"
    /\ Len(QuestionsOf(readFiles[1].data)) = 3
    /\ \E r \in DOMAIN solutionFile.v :
          solutionFile.v[r] = [row_id |-> <<"a", "_", "_", "q", "2">>,
                               answer |-> <<"C">>, Usage |-> "Public"]
    /\ \E r \in DOMAIN solutionFile.v :
          solutionFile.v[r] = [row_id |-> <<"b", "_", "_", "q", "1">>,
                               answer |-> <<"B">>, Usage |-> "Private"]

\* C4: a written sample-submission table has the row_id values of the
\* solution table, row by row, and the answer "A" in every row.
C4_SampleMatchesSolution ==
    Written(sampleFile) =>
        /\ Written(solutionFile)
        /\ Len(sampleFile.v) = Len(solutionFile.v)
        /\ \A i \in DOMAIN sampleFile.v :
              /\ sampleFile.v[i].row_id = solutionFile.v[i].row_id
              /\ sampleFile.v[i].answer = <<"A">>

\* both files written, several rows, a ground-truth answer other than A
C4_Witness ==
    /\ pc = "done" /\ Written(sampleFile) /\ Len(sampleFile.v) >= 2
    /\ \E i \in DOMAIN solutionFile.v : solutionFile.v[i].answer = <<"C">>

----------------------------------------------------------------------------
(* Dataset Splitter: split.py.  Files are numbered; split_counts is the    *)
(* dict of the CONFIG block in its order train, public, private, with      *)
(* counts drawn from 0..MaxCount.                                          *)

SplitNames == <<"train", "public", "private">>

\* random.shuffle: every order of the listed files
Shuffles(S) ==
    {f \in [1..Cardinality(S) -> S] : \A i, j \in DOMAIN f : i # j => f[i] # f[j]}

\* sum(split_counts.values())
RECURSIVE SumCounts(_)
SumCounts(cs) == IF cs = <<>> THEN 0 ELSE Head(cs) + SumCounts(Tail(cs))

\* files[start:end], start and end counted from 0
Slice(fs, start, end) ==
    [i \in 1..((IF end < Len(fs) THEN end ELSE Len(fs)) - start) |-> fs[start + i]]

\* faulty variant: `start = end` is missing: every split is cut from the first file on
AssignSplits_NoAdvance(fs, cs) == [n \in DOMAIN cs |-> Slice(fs, 0, cs[n])]

\* lines 29-34: for split, count in split_counts.items():
\*     end = start + count; splits[split] = files[start:end]; start = end
AssignSplits(fs, cs) ==
    [n \in DOMAIN cs |-> Slice(fs, SumCounts(SubSeq(cs, 1, n - 1)),
                                   SumCounts(SubSeq(cs, 1, n)))]

SplitInit ==
    /\ src_folder \in {1..n : n \in 0..MaxSrcFiles}
    /\ split_counts \in [DOMAIN SplitNames -> 0..MaxCount]
    /\ files = <<>> /\ splits = <<>> /\ copied = <<>>
    /\ spc = "start" /\ serror = None
    /\ KeysIdle /\ NormIdle /\ BuildIdle

\* lines 15-17: os.makedirs(..., exist_ok=True) for every split
MakeDirs ==
    /\ spc = "start"
    /\ copied' = [n \in DOMAIN SplitNames |-> {}]
    /\ spc' = "list"
    /\ UNCHANGED <<src_folder, split_counts, files, splits, serror>>
    /\ UNCHANGED <<keyVars, normVars, buildVars>>

\* lines 20-21: the regular files of src_folder, shuffled
ListAndShuffle ==
    /\ spc = "list"
    /\ files' \in Shuffles(src_folder)
    /\ spc' = "check"
    /\ UNCHANGED <<src_folder, split_counts, splits, copied, serror>>
    /\ UNCHANGED <<keyVars, normVars, buildVars>>

\* lines 24-26
CheckEnough ==
    /\ spc = "check"
    /\ IF Len(files) < SumCounts(split_counts)
       THEN spc' = "failed" /\ serror' = "InsufficientSourceFiles"
       ELSE spc' = "assign" /\ serror' = serror
    /\ UNCHANGED <<src_folder, split_counts, files, splits, copied>>
    /\ UNCHANGED <<keyVars, normVars, buildVars>>

\* lines 28-34
Assign ==
    /\ spc = "assign"
    /\ splits' = AssignSplits(files, split_counts)
    /\ spc' = "copy"
    /\ UNCHANGED <<src_folder, split_counts, files, copied, serror>>
    /\ UNCHANGED <<keyVars, normVars, buildVars>>

\* the splits that still have a file to copy
Pending == {n \in DOMAIN splits : Cardinality(copied[n]) < Len(splits[n])}

\* lines 37-39: one shutil.copy2, split after split, file after file
CopyFile ==
    /\ spc = "copy" /\ Pending # {}
    /\ LET n == CHOOSE m \in Pending : \A k \in Pending : m <= k
           f == splits[n][Cardinality(copied[n]) + 1]
       IN  copied' = [copied EXCEPT ![n] = @ \cup {f}]
    /\ UNCHANGED <<src_folder, split_counts, files, splits, spc, serror>>
    /\ UNCHANGED <<keyVars, normVars, buildVars>>

\* lines 41-43: the report after the last copy
Report ==
    /\ spc = "copy" /\ Pending = {}
    /\ spc' = "done"
    /\ UNCHANGED <<src_folder, split_counts, files, splits, copied, serror>>
    /\ UNCHANGED <<keyVars, normVars, buildVars>>

SplitNext == MakeDirs \/ ListAndShuffle \/ CheckEnough \/ Assign \/ CopyFile \/ Report
SpecSplit == SplitInit /\ [][SplitNext]_vars

\* C7: with at least t+p+q files in the source folder the run does not fail,
\* never has a file in two split directories, and ends with exactly t, p and q
\* files copied into train, public and private; with fewer files it raises
\* the insufficient-files error and has copied no file.
C7_ExactDisjointSplits ==
    LET total == SumCounts(split_counts)
        enough == Cardinality(src_folder) >= total
    IN  /\ \A m, n \in DOMAIN copied : m # n => copied[m] \cap copied[n] = {}
        /\ enough => spc # "failed"
        /\ (enough /\ spc = "done") =>
              /\ \A n \in DOMAIN SplitNames : Cardinality(copied[n]) = split_counts[n]
              /\ \A n \in DOMAIN SplitNames : copied[n] \subseteq src_folder
        /\ (~enough /\ spc \notin {"start", "list", "check"}) =>
              /\ spc = "failed" /\ serror = "InsufficientSourceFiles"
              /\ \A n \in DOMAIN copied : copied[n] = {}

\* a finished run, files left over, the shuffle not the identity
C7_Witness ==
    /\ spc = "done" /\ split_counts = <<1, 1, 1>> /\ src_folder = 1..4
    /\ files = <<3, 1, 4, 2>>
    /\ copied = <<{3}, {1}, {4}>>

====
